---- MODULE Spec2Model ----
(***************************************************************************)
(* Byte-level model of src/data_structures.rs: the Groth16 VerifyingKey,   *)
(* PreparedVerifyingKey and ProvingKey, their ToBytes writers, the         *)
(* size-guided readers VerifyingKey::read / ProvingKey::read (which        *)
(* unwrap every point read) and ProvingKey::size.                          *)
(*                                                                         *)
(* The pairing engine is external.  It is modelled by a toy engine: the    *)
(* base field has Modulus elements, a G1 point is one coordinate, a G2     *)
(* point two, and a byte holding the value Modulus is out of range, so     *)
(* that decoding can fail on malformed data as well as on a short stream.  *)
(***************************************************************************)
EXTENDS Integers, Sequences, FiniteSets, TLC

\* ------------------------------------------------------------- bounds
\* Longest vector of a generated key, and largest length asked of a reader.
MaxLen == 2
\* Longest run of arbitrary bytes that follows the head of a raw stream.
MaxTail == 5

\* ------------------------------------------------- the point codec (toy)
\* Order of the toy base field: coordinates are 0 .. Modulus-1.
Modulus == 2
\* Bytes on the wire of E::G1Affine and of E::G2Affine.
G1Width == 1
G2Width == 2

Coord == 0 .. (Modulus - 1)
Byte == 0 .. Modulus

G1Point(v) == [x |-> v % Modulus]
G2Point(v, w) == [c0 |-> v % Modulus, c1 |-> w % Modulus]

\* <E::G1Affine as ToBytes>::write and <E::G2Affine as ToBytes>::write.
EncodeG1(p) == <<p.x>>
EncodeG2(q) == <<q.c0, q.c1>>

\* q.write(&mut writer): the bytes of q are appended to the writer.
WriteG1(w, p) == w \o EncodeG1(p)
WriteG2(w, q) == w \o EncodeG2(q)

\* io::Result of one point read: Ok(point) with the reader advanced, or Err.
Ok(v, p) == [tag |-> "ok", val |-> v, pos |-> p, err |-> "none"]
Err(e, p) == [tag |-> "err", val |-> <<>>, pos |-> p, err |-> e]
\* Result::unwrap on an Err: the thread panics, nothing is returned.
Panicked(e, p) == [tag |-> "panic", val |-> <<>>, pos |-> p, err |-> e]

\* Faulty variant of ReadG1: a short stream yields the default point, not Err.
ReadG1Eager(s, pos) ==
    IF pos + G1Width > Len(s)
    THEN Ok(G1Point(0), Len(s))
    ELSE IF s[pos + 1] \notin Coord
         THEN Err("InvalidData", pos + G1Width)
         ELSE Ok([x |-> s[pos + 1]], pos + G1Width)

\* E::G1Affine::read(&mut reader): pos bytes of s are already consumed.  A
\* short stream is Err(UnexpectedEof), an out-of-range byte Err(InvalidData).
ReadG1(s, pos) ==
    IF pos + G1Width > Len(s)
    THEN Err("UnexpectedEof", Len(s))
    ELSE IF s[pos + 1] \notin Coord
         THEN Err("InvalidData", pos + G1Width)
         ELSE Ok([x |-> s[pos + 1]], pos + G1Width)

\* E::G2Affine::read(&mut reader).
ReadG2(s, pos) ==
    IF pos + G2Width > Len(s)
    THEN Err("UnexpectedEof", Len(s))
    ELSE IF s[pos + 1] \notin Coord \/ s[pos + 2] \notin Coord
         THEN Err("InvalidData", pos + G2Width)
         ELSE Ok([c0 |-> s[pos + 1], c1 |-> s[pos + 2]], pos + G2Width)

\* ------------------------------------------------------------ writers
\* for q in &v { q.write(&mut writer)?; }  over a Vec<E::G1Affine>.
RECURSIVE WriteAllG1(_, _)
WriteAllG1(w, v) ==
    IF v = <<>> THEN w ELSE WriteAllG1(WriteG1(w, Head(v)), Tail(v))

\* for q in &v { q.write(&mut writer)?; }  over a Vec<E::G2Affine>.
RECURSIVE WriteAllG2(_, _)
WriteAllG2(w, v) ==
    IF v = <<>> THEN w ELSE WriteAllG2(WriteG2(w, Head(v)), Tail(v))

\* Faulty variant of VKWrite: gamma_g2 is written before beta_g2.
VKWriteSwapped(w, vk) ==
    LET w1 == WriteG1(w, vk.alpha_g1)
        w2 == WriteG2(w1, vk.gamma_g2)
        w3 == WriteG2(w2, vk.beta_g2)
        w4 == WriteG2(w3, vk.delta_g2)
    IN  WriteAllG1(w4, vk.gamma_abc_g1)

\* <VerifyingKey as ToBytes>::write.
VKWrite(w, vk) ==
    LET w1 == WriteG1(w, vk.alpha_g1)
        w2 == WriteG2(w1, vk.beta_g2)
        w3 == WriteG2(w2, vk.gamma_g2)
        w4 == WriteG2(w3, vk.delta_g2)
    IN  WriteAllG1(w4, vk.gamma_abc_g1)

\* Faulty variant of PKWrite: l_query is written before h_query.
PKWriteSwapped(w, pk) ==
    LET w1 == VKWrite(w, pk.vk)
        w2 == WriteG1(w1, pk.beta_g1)
        w3 == WriteG1(w2, pk.delta_g1)
        w4 == WriteAllG1(w3, pk.a_query)
        w5 == WriteAllG1(w4, pk.b_g1_query)
        w6 == WriteAllG2(w5, pk.b_g2_query)
        w7 == WriteAllG1(w6, pk.l_query)
    IN  WriteAllG1(w7, pk.h_query)

\* <ProvingKey as ToBytes>::write.
PKWrite(w, pk) ==
    LET w1 == VKWrite(w, pk.vk)
        w2 == WriteG1(w1, pk.beta_g1)
        w3 == WriteG1(w2, pk.delta_g1)
        w4 == WriteAllG1(w3, pk.a_query)
        w5 == WriteAllG1(w4, pk.b_g1_query)
        w6 == WriteAllG2(w5, pk.b_g2_query)
        w7 == WriteAllG1(w6, pk.h_query)
    IN  WriteAllG1(w7, pk.l_query)

\* ------------------------------------------------------------ readers
\* for _ in 0..n { let q = E::G1Affine::read(&mut reader).unwrap(); v.push(q); }
\* acc is the vector so far; the loop panics on the first failed read.
RECURSIVE ReadVecG1(_, _, _, _)
ReadVecG1(s, pos, n, acc) ==
    IF n = 0 THEN Ok(acc, pos)
    ELSE LET r == ReadG1(s, pos)
         IN  IF r.tag # "ok" THEN Panicked(r.err, r.pos)
             ELSE ReadVecG1(s, r.pos, n - 1, Append(acc, r.val))

\* for _ in 0..n { let q = E::G2Affine::read(&mut reader).unwrap(); v.push(q); }
RECURSIVE ReadVecG2(_, _, _, _)
ReadVecG2(s, pos, n, acc) ==
    IF n = 0 THEN Ok(acc, pos)
    ELSE LET r == ReadG2(s, pos)
         IN  IF r.tag # "ok" THEN Panicked(r.err, r.pos)
             ELSE ReadVecG2(s, r.pos, n - 1, Append(acc, r.val))

\* E::G1Affine::read(&mut reader).unwrap() / E::G2Affine::read(..).unwrap().
UnwrapG1(s, pos) ==
    LET r == ReadG1(s, pos)
    IN  IF r.tag = "ok" THEN r ELSE Panicked(r.err, r.pos)

UnwrapG2(s, pos) ==
    LET r == ReadG2(s, pos)
    IN  IF r.tag = "ok" THEN r ELSE Panicked(r.err, r.pos)

\* Faulty variant of VKRead: the loop runs 0..=len, one point too many.
VKReadOneMore(s, pos, len) ==
    LET a == UnwrapG1(s, pos) IN
    IF a.tag # "ok" THEN a ELSE
    LET b == UnwrapG2(s, a.pos) IN
    IF b.tag # "ok" THEN b ELSE
    LET g == UnwrapG2(s, b.pos) IN
    IF g.tag # "ok" THEN g ELSE
    LET d == UnwrapG2(s, g.pos) IN
    IF d.tag # "ok" THEN d ELSE
    LET v == ReadVecG1(s, d.pos, len + 1, <<>>) IN
    IF v.tag # "ok" THEN v ELSE
    Ok([alpha_g1 |-> a.val, beta_g2 |-> b.val, gamma_g2 |-> g.val,
        delta_g2 |-> d.val, gamma_abc_g1 |-> v.val], v.pos)

\* VerifyingKey::read(reader, len), the reader having consumed pos bytes.
VKRead(s, pos, len) ==
    LET a == UnwrapG1(s, pos) IN
    IF a.tag # "ok" THEN a ELSE
    LET b == UnwrapG2(s, a.pos) IN
    IF b.tag # "ok" THEN b ELSE
    LET g == UnwrapG2(s, b.pos) IN
    IF g.tag # "ok" THEN g ELSE
    LET d == UnwrapG2(s, g.pos) IN
    IF d.tag # "ok" THEN d ELSE
    LET v == ReadVecG1(s, d.pos, len, <<>>) IN
    IF v.tag # "ok" THEN v ELSE
    Ok([alpha_g1 |-> a.val, beta_g2 |-> b.val, gamma_g2 |-> g.val,
        delta_g2 |-> d.val, gamma_abc_g1 |-> v.val], v.pos)

\* Faulty variant of PKRead: a_query is read with b_g1_len, b_g1_query with a_len.
PKReadSwapped(s, pos, key_size) ==
    LET vk == VKRead(s, pos, key_size.vk_len) IN
    IF vk.tag # "ok" THEN vk ELSE
    LET bg == UnwrapG1(s, vk.pos) IN
    IF bg.tag # "ok" THEN bg ELSE
    LET dg == UnwrapG1(s, bg.pos) IN
    IF dg.tag # "ok" THEN dg ELSE
    LET a == ReadVecG1(s, dg.pos, key_size.b_g1_len, <<>>) IN
    IF a.tag # "ok" THEN a ELSE
    LET b1 == ReadVecG1(s, a.pos, key_size.a_len, <<>>) IN
    IF b1.tag # "ok" THEN b1 ELSE
    LET b2 == ReadVecG2(s, b1.pos, key_size.b_g2_len, <<>>) IN
    IF b2.tag # "ok" THEN b2 ELSE
    LET h == ReadVecG1(s, b2.pos, key_size.h_len, <<>>) IN
    IF h.tag # "ok" THEN h ELSE
    LET l == ReadVecG1(s, h.pos, key_size.l_len, <<>>) IN
    IF l.tag # "ok" THEN l ELSE
    Ok([vk |-> vk.val, beta_g1 |-> bg.val, delta_g1 |-> dg.val,
        a_query |-> a.val, b_g1_query |-> b1.val, b_g2_query |-> b2.val,
        h_query |-> h.val, l_query |-> l.val], l.pos)

\* ProvingKey::read(reader, key_size), the reader having consumed pos bytes.
PKRead(s, pos, key_size) ==
    LET vk == VKRead(s, pos, key_size.vk_len) IN
    IF vk.tag # "ok" THEN vk ELSE
    LET bg == UnwrapG1(s, vk.pos) IN
    IF bg.tag # "ok" THEN bg ELSE
    LET dg == UnwrapG1(s, bg.pos) IN
    IF dg.tag # "ok" THEN dg ELSE
    LET a == ReadVecG1(s, dg.pos, key_size.a_len, <<>>) IN
    IF a.tag # "ok" THEN a ELSE
    LET b1 == ReadVecG1(s, a.pos, key_size.b_g1_len, <<>>) IN
    IF b1.tag # "ok" THEN b1 ELSE
    LET b2 == ReadVecG2(s, b1.pos, key_size.b_g2_len, <<>>) IN
    IF b2.tag # "ok" THEN b2 ELSE
    LET h == ReadVecG1(s, b2.pos, key_size.h_len, <<>>) IN
    IF h.tag # "ok" THEN h ELSE
    LET l == ReadVecG1(s, h.pos, key_size.l_len, <<>>) IN
    IF l.tag # "ok" THEN l ELSE
    Ok([vk |-> vk.val, beta_g1 |-> bg.val, delta_g1 |-> dg.val,
        a_query |-> a.val, b_g1_query |-> b1.val, b_g2_query |-> b2.val,
        h_query |-> h.val, l_query |-> l.val], l.pos)

\* Faulty variant of PKSize: a_len and b_g1_len are exchanged.
PKSizeSwapped(pk) ==
    [vk_len   |-> Len(pk.vk.gamma_abc_g1),
     a_len    |-> Len(pk.b_g1_query),
     b_g1_len |-> Len(pk.a_query),
     b_g2_len |-> Len(pk.b_g2_query),
     h_len    |-> Len(pk.h_query),
     l_len    |-> Len(pk.l_query)]

\* ProvingKey::size.
PKSize(pk) ==
    [vk_len   |-> Len(pk.vk.gamma_abc_g1),
     a_len    |-> Len(pk.a_query),
     b_g1_len |-> Len(pk.b_g1_query),
     b_g2_len |-> Len(pk.b_g2_query),
     h_len    |-> Len(pk.h_query),
     l_len    |-> Len(pk.l_query)]

\* ------------------------------------------- prepared verifying key
\* The pairing and the prepared operands of the external engine (toy).
Pairing(p, q) == [t |-> (p.x + q.c0 + 2 * q.c1) % (2 * Modulus)]
NegG2(q) == [c0 |-> q.c0, c1 |-> (Modulus - q.c1) % Modulus]
PrepareG2(q) == [ell_coeffs |-> <<q.c0, q.c1>>, infinity |-> 0]

\* <E::Fqk as ToBytes>::write and <E::G2Prepared as ToBytes>::write.
WriteFqk(w, e) == w \o <<e.t>>
WriteG2Prepared(w, pq) == w \o pq.ell_coeffs \o <<pq.infinity>>

\* crate::prepare_verifying_key: the key itself, the pairing of alpha_g1 and
\* beta_g2, and the prepared negations of gamma_g2 and delta_g2.
prepare_verifying_key(vk) ==
    [vk |-> vk,
     alpha_g1_beta_g2 |-> Pairing(vk.alpha_g1, vk.beta_g2),
     gamma_g2_neg_pc |-> PrepareG2(NegG2(vk.gamma_g2)),
     delta_g2_neg_pc |-> PrepareG2(NegG2(vk.delta_g2))]

\* The derived CanonicalSerialize of VerifyingKey: the four fixed elements,
\* the length of gamma_abc_g1 as a little-endian u64, then its elements.
EncodeLen(n) == <<n % 256, 0, 0, 0, 0, 0, 0, 0>>

VKWriteSelfDescribing(w, vk) ==
    LET w1 == WriteG1(w, vk.alpha_g1)
        w2 == WriteG2(w1, vk.beta_g2)
        w3 == WriteG2(w2, vk.gamma_g2)
        w4 == WriteG2(w3, vk.delta_g2)
    IN  WriteAllG1(w4 \o EncodeLen(Len(vk.gamma_abc_g1)), vk.gamma_abc_g1)

\* VerifyingKey::default().
VKDefault ==
    [alpha_g1 |-> G1Point(0), beta_g2 |-> G2Point(0, 0),
     gamma_g2 |-> G2Point(0, 0), delta_g2 |-> G2Point(0, 0),
     gamma_abc_g1 |-> <<>>]

\* Faulty variant of VKFromPVK: the embedded key is dropped.
VKFromPVKDefault(other) == VKDefault

\* impl From<PreparedVerifyingKey<E>> for VerifyingKey<E>.
VKFromPVK(other) == other.vk

\* impl From<VerifyingKey<E>> for PreparedVerifyingKey<E>.
PVKFromVK(other) == prepare_verifying_key(other)

\* Faulty variant of PVKWrite: delta_g2_neg_pc is written before gamma_g2_neg_pc.
PVKWriteSwapped(w, pvk) ==
    LET w1 == VKWrite(w, pvk.vk)
        w2 == WriteFqk(w1, pvk.alpha_g1_beta_g2)
        w3 == WriteG2Prepared(w2, pvk.delta_g2_neg_pc)
    IN  WriteG2Prepared(w3, pvk.gamma_g2_neg_pc)

\* <PreparedVerifyingKey as ToBytes>::write.
PVKWrite(w, pvk) ==
    LET w1 == VKWrite(w, pvk.vk)
        w2 == WriteFqk(w1, pvk.alpha_g1_beta_g2)
        w3 == WriteG2Prepared(w2, pvk.gamma_g2_neg_pc)
    IN  WriteG2Prepared(w3, pvk.delta_g2_neg_pc)

\* ------------------------------------------------------------- inputs
\* struct KeySize, every field within the bound.
KeySizes ==
    [vk_len : 0 .. MaxLen, a_len : 0 .. MaxLen, b_g1_len : 0 .. MaxLen,
     b_g2_len : 0 .. MaxLen, h_len : 0 .. MaxLen, l_len : 0 .. MaxLen]

Fields == {"vk_len", "a_len", "b_g1_len", "b_g2_len", "h_len", "l_len"}

ZeroSize ==
    [vk_len |-> 0, a_len |-> 0, b_g1_len |-> 0, b_g2_len |-> 0,
     h_len |-> 0, l_len |-> 0]

Total(k) == k.vk_len + k.a_len + k.b_g1_len + k.b_g2_len + k.h_len + k.l_len

\* Key sizes a caller may pass for a key of size k0: k0 itself, and k0 with
\* one field replaced (understated or overstated).
SizesNear(k0) ==
    {k0} \cup {[k0 EXCEPT ![f] = n] : f \in Fields, n \in 0 .. (MaxLen + 1)}

\* Vectors whose elements differ from one index to the next and from one
\* vector to its neighbour in the stream.
GenVecG1(n, off) == [i \in 1 .. n |-> G1Point(off + i)]
GenVecG2(n, off) == [i \in 1 .. n |-> G2Point(off + i, off + 1)]

\* struct VerifyingKey / struct ProvingKey: a key of shape sh.
GenVK(n, seed) ==
    [alpha_g1 |-> G1Point(seed),
     beta_g2 |-> G2Point(seed, seed + 1),
     gamma_g2 |-> G2Point(seed + 1, seed),
     delta_g2 |-> G2Point(seed + 1, seed + 1),
     gamma_abc_g1 |-> GenVecG1(n, seed)]

GenKey(sh, seed) ==
    [vk |-> GenVK(sh.vk_len, seed),
     beta_g1 |-> G1Point(seed + 1),
     delta_g1 |-> G1Point(seed),
     a_query |-> GenVecG1(sh.a_len, seed + 1),
     b_g1_query |-> GenVecG1(sh.b_g1_len, seed),
     b_g2_query |-> GenVecG2(sh.b_g2_len, seed),
     h_query |-> GenVecG1(sh.h_len, seed + 1),
     l_query |-> GenVecG1(sh.l_len, seed)]

GenKeys == {GenKey(sh, seed) : sh \in KeySizes, seed \in Coord}

\* Raw streams: the fixed part of a verifying key followed by arbitrary
\* bytes, and streams whose fixed part holds an out-of-range byte or is cut
\* short.
Tails == UNION {[1 .. n -> Byte] : n \in 0 .. MaxTail}

GoodHead == VKWrite(<<>>, GenVK(0, 0))

BadHeads ==
    {[GoodHead EXCEPT ![i] = Modulus] : i \in 1 .. Len(GoodHead)}
        \cup {SubSeq(GoodHead, 1, n) : n \in 0 .. (Len(GoodHead) - 1)}

Streams == {GoodHead \o t : t \in Tails} \cup BadHeads

\* Key sizes asked of a raw stream: those that need at most one G1 point more
\* than the longest stream holds (a larger one runs off the end of every
\* stream alike).
StreamSizes ==
    {k \in KeySizes :
        G1Width * (3 + Total(k) - k.b_g2_len) + G2Width * (3 + k.b_g2_len)
            <= G1Width + 3 * G2Width + MaxTail + G1Width}

\* -------------------------------------------------------------- state
VARIABLES
    pk,       \* the ProvingKey in memory
    written,  \* the bytes the writer has received
    stream,   \* the bytes behind the reader
    ks,       \* the KeySize (or len) passed to the last read
    op,       \* the last operation performed
    res       \* what the last operation returned

vars == <<pk, written, stream, ks, op, res>>

NoResult == [tag |-> "none", val |-> <<>>, pos |-> 0, err |-> "none"]

\* A key produced by setup; nothing written or read yet.
Init ==
    /\ pk \in GenKeys
    /\ written = <<>>
    /\ stream = <<>>
    /\ ks = ZeroSize
    /\ op = "new"
    /\ res = NoResult

\* A raw stream handed to a reader; pk holds a placeholder until a read
\* returns a key.
InitStream ==
    /\ pk = GenKey(ZeroSize, 0)
    /\ written = <<>>
    /\ stream \in Streams
    /\ ks = ZeroSize
    /\ op = "stream"
    /\ res = NoResult

\* pk.write(&mut writer) on an empty writer.
ProvingKeyWrite ==
    /\ op = "new"
    /\ written' = PKWrite(written, pk)
    /\ op' = "pk_write"
    /\ UNCHANGED <<pk, stream, ks, res>>

\* pk.size().
ProvingKeySize ==
    /\ op = "new"
    /\ res' = Ok(PKSize(pk), 0)
    /\ op' = "pk_size"
    /\ UNCHANGED <<pk, written, stream, ks>>

\* ProvingKey::read(reader, &k) over the written bytes, or over a raw stream.
ProvingKeyRead(k) ==
    /\ op \in {"pk_write", "stream"}
    /\ stream' = IF op = "pk_write" THEN written ELSE stream
    /\ ks' = k
    /\ res' = PKRead(stream', 0, k)
    /\ op' = "pk_read"
    /\ UNCHANGED <<pk, written>>

\* VerifyingKey::read(reader, len) over a raw stream.
VerifyingKeyRead(len) ==
    /\ op = "stream"
    /\ ks' = [ZeroSize EXCEPT !.vk_len = len]
    /\ res' = VKRead(stream, 0, len)
    /\ op' = "vk_read"
    /\ UNCHANGED <<pk, written, stream>>

\* The key a read returned is kept and written to a fresh writer.
ProvingKeyWriteBack ==
    /\ op = "pk_read"
    /\ res.tag = "ok"
    /\ pk' = res.val
    /\ written' = PKWrite(<<>>, res.val)
    /\ op' = "pk_rewrite"
    /\ UNCHANGED <<stream, ks, res>>

\* PreparedVerifyingKey::from(pk.vk).
PreparedFromVerifying ==
    /\ op = "new"
    /\ res' = Ok(PVKFromVK(pk.vk), 0)
    /\ op' = "pvk_from"
    /\ UNCHANGED <<pk, written, stream, ks>>

\* VerifyingKey::from(pvk).
VerifyingFromPrepared ==
    /\ op = "pvk_from"
    /\ res' = Ok(VKFromPVK(res.val), 0)
    /\ op' = "vk_from"
    /\ UNCHANGED <<pk, written, stream, ks>>

\* pvk.write(&mut writer) on an empty writer.
PreparedWrite ==
    /\ op = "pvk_from"
    /\ written' = PVKWrite(written, res.val)
    /\ op' = "pvk_write"
    /\ UNCHANGED <<pk, stream, ks, res>>

Next ==
    \/ ProvingKeyWrite
    \/ ProvingKeySize
    \/ \E k \in SizesNear(PKSize(pk)) : ProvingKeyRead(k)
    \/ PreparedFromVerifying
    \/ VerifyingFromPrepared
    \/ PreparedWrite

NextStream ==
    \/ \E k \in StreamSizes : ProvingKeyRead(k)
    \/ \E len \in 0 .. MaxTail : VerifyingKeyRead(len)
    \/ ProvingKeyWriteBack

Spec == Init /\ [][Next]_vars

SpecStream == InitStream /\ [][NextStream]_vars

\* --------------------------------------------------- stream geometry
\* Offsets, in bytes, of the fields of a size-guided stream of shape k.
Slice(s, off, width) == SubSeq(s, off + 1, off + width)

OffBetaG2 == G1Width
OffGammaG2 == OffBetaG2 + G2Width
OffDeltaG2 == OffGammaG2 + G2Width
OffGammaAbc == OffDeltaG2 + G2Width
OffBetaG1(k) == OffGammaAbc + k.vk_len * G1Width
OffDeltaG1(k) == OffBetaG1(k) + G1Width
OffA(k) == OffDeltaG1(k) + G1Width
OffBG1(k) == OffA(k) + k.a_len * G1Width
OffBG2(k) == OffBG1(k) + k.b_g1_len * G1Width
OffH(k) == OffBG2(k) + k.b_g2_len * G2Width
OffL(k) == OffH(k) + k.h_len * G1Width
EndOfKey(k) == OffL(k) + k.l_len * G1Width

\* The elements of vector v lie back to back, in index order, from off on.
VecG1At(s, off, v) ==
    \A i \in 1 .. Len(v) :
        Slice(s, off + (i - 1) * G1Width, G1Width) = EncodeG1(v[i])

VecG2At(s, off, v) ==
    \A i \in 1 .. Len(v) :
        Slice(s, off + (i - 1) * G2Width, G2Width) = EncodeG2(v[i])

\* The first bytes of s are vk in the compact form: no length anywhere.
VKLayout(s, vk) ==
    /\ Slice(s, 0, G1Width) = EncodeG1(vk.alpha_g1)
    /\ Slice(s, OffBetaG2, G2Width) = EncodeG2(vk.beta_g2)
    /\ Slice(s, OffGammaG2, G2Width) = EncodeG2(vk.gamma_g2)
    /\ Slice(s, OffDeltaG2, G2Width) = EncodeG2(vk.delta_g2)
    /\ VecG1At(s, OffGammaAbc, vk.gamma_abc_g1)

\* s is exactly key in the size-guided layout.
PKLayout(s, key) ==
    LET k == [vk_len |-> Len(key.vk.gamma_abc_g1), a_len |-> Len(key.a_query),
              b_g1_len |-> Len(key.b_g1_query), b_g2_len |-> Len(key.b_g2_query),
              h_len |-> Len(key.h_query), l_len |-> Len(key.l_query)]
    IN  /\ Len(s) = EndOfKey(k)
        /\ VKLayout(s, key.vk)
        /\ Slice(s, OffBetaG1(k), G1Width) = EncodeG1(key.beta_g1)
        /\ Slice(s, OffDeltaG1(k), G1Width) = EncodeG1(key.delta_g1)
        /\ VecG1At(s, OffA(k), key.a_query)
        /\ VecG1At(s, OffBG1(k), key.b_g1_query)
        /\ VecG2At(s, OffBG2(k), key.b_g2_query)
        /\ VecG1At(s, OffH(k), key.h_query)
        /\ VecG1At(s, OffL(k), key.l_query)

Understated(k, k0) == \E f \in Fields : k[f] < k0[f]

OverstatedInOne(k, k0) ==
    \E f \in Fields : k[f] > k0[f] /\ \A g \in Fields \ {f} : k[g] = k0[g]

\* ------------------------------------------------------------- claims

\* C1: writing a proving key and reading the written bytes back with
\* key_size = pk.size() succeeds and returns a key equal to pk in every
\* field, whichever of its vectors are empty.
C1_RoundTrip ==
    (op = "pk_read" /\ ks = PKSize(pk)) => (res.tag = "ok" /\ res.val = pk)

\* A key with empty and non-empty vectors has been written and read back.
C1_Witness ==
    /\ op = "pk_read"
    /\ ks = PKSize(pk)
    /\ res.tag = "ok"
    /\ pk.vk.gamma_abc_g1 = <<>>
    /\ pk.h_query = <<>>
    /\ Len(pk.b_g2_query) = 1
    /\ Len(pk.l_query) = 2

\* C2 (as claimed): a read whose key size understates some length never
\* returns a proving key.
C2_UnderstatedNeverReturns ==
    (op = "pk_read" /\ Understated(ks, PKSize(pk))) => res.tag # "ok"

\* C3: a read of exactly the written bytes whose key size overstates one
\* length, the others being the true lengths, returns no key: it stops on a
\* failed point read (stream exhaustion or a malformed point).
C3_OverstatedFails ==
    (op = "pk_read" /\ OverstatedInOne(ks, PKSize(pk)))
        => (res.tag = "panic" /\ res.err \in {"UnexpectedEof", "InvalidData"})

\* A read that asked for one G2 point too many has run off the stream.
C3_Witness ==
    /\ op = "pk_read"
    /\ ks.b_g2_len = Len(pk.b_g2_query) + 1
    /\ Len(pk.l_query) = 2
    /\ res.tag = "panic"
    /\ res.err = "UnexpectedEof"

\* C4 (as claimed): a read that meets the end of the stream or a malformed
\* point returns an error value to its caller; it never panics.
C4_ReadsReturnErrors ==
    (op \in {"pk_read", "vk_read"}) => res.tag \in {"ok", "err"}

\* C5: the bytes ProvingKey::write produces are the fields in the order
\* alpha_g1, beta_g2, gamma_g2, delta_g2, gamma_abc_g1, beta_g1, delta_g1,
\* a_query, b_g1_query, b_g2_query, h_query, l_query, nothing between them
\* and no length; a successful ProvingKey::read takes its fields from the
\* same places.
C5_Layout ==
    /\ op = "pk_write" => PKLayout(written, pk)
    /\ (op = "pk_read" /\ res.tag = "ok")
            => PKLayout(SubSeq(stream, 1, res.pos), res.val)

\* A key whose six vectors are all non-empty has been written.
C5_Witness ==
    /\ op = "pk_write"
    /\ \A f \in Fields : PKSize(pk)[f] >= 1
    /\ Len(pk.b_g2_query) = 2

\* C6: a successful VerifyingKey::read(stream, len) consumes the four fixed
\* elements and len G1 points, returns a key with len elements taken from
\* those bytes alone, and leaves the reader at the first byte after them, so
\* that ProvingKey::read takes beta_g1 from there.
C6_ReadsExactly ==
    /\ (op = "vk_read" /\ res.tag = "ok")
            => /\ res.pos = OffGammaAbc + ks.vk_len * G1Width
               /\ Len(res.val.gamma_abc_g1) = ks.vk_len
               /\ VKLayout(stream, res.val)
               /\ VKRead(SubSeq(stream, 1, res.pos), 0, ks.vk_len) = res
    /\ (op = "pk_read" /\ res.tag = "ok")
            => Slice(stream, OffBetaG1(ks), G1Width) = EncodeG1(res.val.beta_g1)

\* A verifying key with a non-empty vector was read and bytes remain.
C6_Witness ==
    /\ op = "vk_read"
    /\ res.tag = "ok"
    /\ ks.vk_len >= 1
    /\ res.pos < Len(stream)

\* C7 (as claimed): the bytes of a prepared verifying key start with the
\* verifying key in the self-describing form, length included.
C7_SelfDescribing ==
    op = "pvk_write" =>
        written = WriteG2Prepared(WriteG2Prepared(WriteFqk(
                      VKWriteSelfDescribing(<<>>, res.val.vk),
                      res.val.alpha_g1_beta_g2),
                      res.val.gamma_g2_neg_pc),
                      res.val.delta_g2_neg_pc)

\* C7 (amended): the bytes of a prepared verifying key are the verifying key
\* in the compact form (the four fixed elements, then the elements of
\* gamma_abc_g1, no length), then alpha_g1_beta_g2, gamma_g2_neg_pc and
\* delta_g2_neg_pc, in that order.
C7_Compact ==
    op = "pvk_write" =>
        LET pvk == res.val
            end == OffGammaAbc + Len(pvk.vk.gamma_abc_g1) * G1Width
            fqk == WriteFqk(<<>>, pvk.alpha_g1_beta_g2)
            gam == WriteG2Prepared(<<>>, pvk.gamma_g2_neg_pc)
            del == WriteG2Prepared(<<>>, pvk.delta_g2_neg_pc)
        IN  /\ VKLayout(written, pvk.vk)
            /\ Slice(written, end, Len(fqk)) = fqk
            /\ Slice(written, end + Len(fqk), Len(gam)) = gam
            /\ Slice(written, end + Len(fqk) + Len(gam), Len(del)) = del
            /\ Len(written) = end + Len(fqk) + Len(gam) + Len(del)

\* A prepared key with two gamma_abc_g1 elements has been written.
C7_Witness ==
    /\ op = "pvk_write"
    /\ Len(res.val.vk.gamma_abc_g1) = 2

\* C8: pk.size() returns the lengths of gamma_abc_g1, a_query, b_g1_query,
\* b_g2_query, h_query and l_query in the fields of those names, and leaves
\* pk as it was.
C8_SizeIsLengths ==
    [][(op = "new" /\ op' = "pk_size") =>
        /\ res'.tag = "ok"
        /\ res'.val.vk_len = Len(pk.vk.gamma_abc_g1)
        /\ res'.val.a_len = Len(pk.a_query)
        /\ res'.val.b_g1_len = Len(pk.b_g1_query)
        /\ res'.val.b_g2_len = Len(pk.b_g2_query)
        /\ res'.val.h_len = Len(pk.h_query)
        /\ res'.val.l_len = Len(pk.l_query)
        /\ DOMAIN res'.val = Fields
        /\ pk' = pk]_vars

\* The size of a key whose vectors differ in length has been taken.
C8_Witness ==
    /\ op = "pk_size"
    /\ res.val.a_len = 2
    /\ res.val.b_g1_len = 1
    /\ res.val.h_len = 0

C10_ReadDeterminedByPrefix ==
    op = "pk_rewrite" =>
        /\ res.tag = "ok"
        /\ pk = res.val
        /\ PKSize(pk) = ks
        /\ res.pos = G1Width * (3 + ks.vk_len + ks.a_len + ks.b_g1_len
                                  + ks.h_len + ks.l_len)
                     + G2Width * (3 + ks.b_g2_len)
        /\ written = SubSeq(stream, 1, res.pos)
        /\ PKRead(SubSeq(stream, 1, res.pos), 0, ks) = res

\* A key with a G2 element was read from a stream that goes on, with an
\* out-of-range byte, after the key.
C10_Witness ==
    /\ op = "pk_rewrite"
    /\ ks.b_g2_len = 1
    /\ res.pos < Len(stream)
    /\ stream[Len(stream)] = Modulus

====
